---- MODULE Spec2Model ----
(***************************************************************************)
(* A model of two programs of the repository:                              *)
(*   week 3/crossword/generate.py  (CrosswordCreator: node consistency,    *)
(*                                  AC-3 and backtracking search)          *)
(*   week 0/tictactoe/tictactoe.py (player, actions, result, winner)       *)
(* Words are tuples of letters; Python's 0-based indices are kept and a    *)
(* character w[i] of the source is read as w[i + 1].                       *)
(***************************************************************************)
EXTENDS Integers, Sequences, FiniteSets, TLC

VARIABLES
    grid,       \* self.crossword: the slots, their lengths, their overlaps
    words,      \* self.crossword.words
    domains,    \* self.domains
    nodeCalls,  \* calls of enforce_node_consistency made so far
    pc,         \* where solve() is: "node", "ac3", "ac3done", "search", "done"
    arcs,       \* the worklist of ac3
    ac3ret,     \* what ac3 returned: "unset", "True", "False"
    btInvoked,  \* whether backtrack has been called
    stack,      \* the active calls of backtrack, outermost first
    result,     \* what solve() returned
    board       \* the tic-tac-toe board

vars == <<grid, words, domains, nodeCalls, pc, arcs, ac3ret, btInvoked, stack,
          result, board>>

cwvars == <<grid, words, domains, nodeCalls, pc, arcs, ac3ret, btInvoked, stack,
            result>>

(***************************************************************************)
(* Bounds of the model.                                                    *)
(***************************************************************************)
MaxWords == 3

MaxNodeCalls == 2

(***************************************************************************)
(* The inputs: a vocabulary the word lists are drawn from, and four        *)
(* puzzles.                                                                *)
(***************************************************************************)
Letters == {"a", "b", "c"}

Vocabulary ==
    {<<x, y>> : x \in Letters, y \in Letters}
        \cup {<<"a", "a", "a">>, <<"a", "b", "c">>, <<"b", "a", "b">>}

WordLists == {W \in SUBSET Vocabulary : Cardinality(W) <= MaxWords}

NoOverlap == <<>>

\* One slot and nothing else:   _ _ _
GridSingle ==
    [variables |-> {"A"},
     length    |-> [v \in {"A"} |-> 3],
     overlaps  |-> [p \in {"A"} \X {"A"} |-> NoOverlap]]

\* A across (3 cells) and B down (2 cells) sharing their first cell:
\*      _ _ _
\*      _ # #
GridCross ==
    [variables |-> {"A", "B"},
     length    |-> [v \in {"A", "B"} |-> IF v = "A" THEN 3 ELSE 2],
     overlaps  |-> [p \in {"A", "B"} \X {"A", "B"} |->
                      IF p = <<"A", "B">> THEN <<0, 0>>
                      ELSE IF p = <<"B", "A">> THEN <<0, 0>>
                      ELSE NoOverlap]]

\* A across, B down, C across, two cells each, in a chain:
\*      _ _ #
\*      # _ _
GridChain ==
    [variables |-> {"A", "B", "C"},
     length    |-> [v \in {"A", "B", "C"} |-> 2],
     overlaps  |-> [p \in {"A", "B", "C"} \X {"A", "B", "C"} |->
                      IF p = <<"A", "B">> THEN <<1, 0>>
                      ELSE IF p = <<"B", "A">> THEN <<0, 1>>
                      ELSE IF p = <<"B", "C">> THEN <<1, 0>>
                      ELSE IF p = <<"C", "B">> THEN <<0, 1>>
                      ELSE NoOverlap]]

\* A structure without a run of two open cells: no slot at all.
GridEmpty ==
    [variables |-> {},
     length    |-> [v \in {} |-> 0],
     overlaps  |-> [p \in {} |-> NoOverlap]]

Grids == {GridEmpty, GridSingle, GridCross, GridChain}

\* crossword.neighbors(var)
Neighbors(g, v) ==
    {u \in g.variables : u # v /\ g.overlaps[<<u, v>>] # NoOverlap}

\* All the orders a Python set may be iterated in.
Perms(S) ==
    {s \in [1..Cardinality(S) -> S] :
        \A i, j \in 1..Cardinality(S) : i # j => s[i] # s[j]}

(***************************************************************************)
(* CrosswordCreator                                                        *)
(***************************************************************************)

\* __init__: every slot starts with the whole word list.
InitialDomains(g, W) == [v \in g.variables |-> W]

\* The unary constraint of enforce_node_consistency.
NodeKeepsLoose(word, len) == Len(word) <= len

NodeKeeps(word, len) == Len(word) = len

\* enforce_node_consistency
NodeConsistent(g, doms) ==
    [v \in g.variables |-> {w \in doms[v] : NodeKeeps(w, g.length[v])}]

\* revise(x, y): the new domains and whether a value was removed.
ReviseSwapped(g, doms, x, y) ==
    LET overlap == g.overlaps[<<x, y>>] IN
    IF overlap # NoOverlap
    THEN LET i == overlap[1]
             j == overlap[2]
             new_domain == {val_x \in doms[x] :
                              \E val_y \in doms[y] :
                                  /\ j + 1 <= Len(val_x)
                                  /\ i + 1 <= Len(val_y)
                                  /\ val_x[j + 1] = val_y[i + 1]}
         IN [domains |-> [doms EXCEPT ![x] = new_domain],
             revised |-> new_domain # doms[x]]
    ELSE [domains |-> doms, revised |-> FALSE]

ReviseAlways(g, doms, x, y) ==
    LET overlap == g.overlaps[<<x, y>>] IN
    IF overlap # NoOverlap
    THEN LET i == overlap[1]
             j == overlap[2]
             new_domain == {val_x \in doms[x] :
                              \E val_y \in doms[y] : val_x[i + 1] = val_y[j + 1]}
         IN [domains |-> [doms EXCEPT ![x] = new_domain], revised |-> TRUE]
    ELSE [domains |-> doms, revised |-> FALSE]

Revise(g, doms, x, y) ==
    LET overlap == g.overlaps[<<x, y>>] IN
    IF overlap # NoOverlap
    THEN LET i == overlap[1]
             j == overlap[2]
             new_domain == {val_x \in doms[x] :
                              \E val_y \in doms[y] : val_x[i + 1] = val_y[j + 1]}
         IN [domains |-> [doms EXCEPT ![x] = new_domain],
             revised |-> new_domain # doms[x]]
    ELSE [domains |-> doms, revised |-> FALSE]

\* ac3, "if not self.domains[x]"
DomainEmptyNegated(doms, x) == doms[x] # {}

DomainEmpty(doms, x) == doms[x] = {}

\* ac3 with arcs=None: the arcs, one slot after the other, each slot's
\* neighbours in turn; both are sets, iterated in any order.
AllArcs(g) ==
    {p \in g.variables \X g.variables : p[2] \in Neighbors(g, p[1])}

InitialArcs(g) ==
    {s \in Perms(AllArcs(g)) :
        \A i, k \in 1..Len(s) :
            (i < k /\ s[i][1] = s[k][1]) =>
                \A m \in i..k : s[m][1] = s[i][1]}

\* ac3: what a revision of (x, y) appends to the worklist.
NewArcs(g, x, y) == Perms({<<x, z>> : z \in Neighbors(g, x) \ {y}})

\* ac3 run to its end from a worklist and domains: every outcome the
\* iteration orders allow, as [ret, domains].
RECURSIVE Ac3Outcomes(_, _, _)
Ac3Outcomes(g, worklist, doms) ==
    IF worklist = <<>>
    THEN {[ret |-> "True", domains |-> doms]}
    ELSE LET x == Head(worklist)[1]
             y == Head(worklist)[2]
             r == Revise(g, doms, x, y)
         IN IF r.revised
            THEN IF DomainEmpty(r.domains, x)
                 THEN {[ret |-> "False", domains |-> r.domains]}
                 ELSE UNION {Ac3Outcomes(g, Tail(worklist) \o ext, r.domains) :
                                ext \in NewArcs(g, x, y)}
            ELSE Ac3Outcomes(g, Tail(worklist), r.domains)

\* assignment_complete
AssignmentComplete(g, assignment) ==
    \A v \in g.variables : v \in DOMAIN assignment

\* consistent
ConsistentNoOverlapCheck(g, assignment) ==
    /\ \A v, u \in DOMAIN assignment : v # u => assignment[v] # assignment[u]
    /\ \A v \in DOMAIN assignment : Len(assignment[v]) = g.length[v]

Consistent(g, assignment) ==
    /\ \A v, u \in DOMAIN assignment : v # u => assignment[v] # assignment[u]
    /\ \A v \in DOMAIN assignment : Len(assignment[v]) = g.length[v]
    /\ \A v \in DOMAIN assignment :
           \A neighbor \in Neighbors(g, v) :
               neighbor \in DOMAIN assignment =>
                   LET i == g.overlaps[<<v, neighbor>>][1]
                       j == g.overlaps[<<v, neighbor>>][2]
                   IN assignment[v][i + 1] = assignment[neighbor][j + 1]

\* order_domain_values: ruled_out_counts[word]
RuledOut(g, doms, assignment, v, word) ==
    Cardinality(
        {p \in {<<n, val>> : n \in Neighbors(g, v) \ DOMAIN assignment,
                             val \in Vocabulary} :
            /\ p[2] \in doms[p[1]]
            /\ LET i == g.overlaps[<<v, p[1]>>][1]
                   j == g.overlaps[<<v, p[1]>>][2]
               IN word[i + 1] # p[2][j + 1]})

\* order_domain_values: the values that may come next among those not yet
\* tried (the sort is stable over a set's arbitrary order).
NextValues(g, doms, assignment, v, rem) ==
    {w \in rem :
        \A u \in rem : RuledOut(g, doms, assignment, v, w)
                          <= RuledOut(g, doms, assignment, v, u)}

\* select_unassigned_variable: the slots that may be returned.
SelectUnassigned(g, doms, assignment) ==
    LET unassigned == g.variables \ DOMAIN assignment
        Before(a, b) ==
            \/ Cardinality(doms[a]) < Cardinality(doms[b])
            \/ /\ Cardinality(doms[a]) = Cardinality(doms[b])
               /\ Cardinality(Neighbors(g, a)) > Cardinality(Neighbors(g, b))
    IN {v \in unassigned : \A u \in unassigned : ~Before(u, v)}

Extend(assignment, v, value) ==
    [u \in DOMAIN assignment \cup {v} |->
        IF u = v THEN value ELSE assignment[u]]

EmptyAssignment == [v \in {} |-> <<>>]

Unset == [kind |-> "unset", assignment |-> EmptyAssignment]

None == [kind |-> "none", assignment |-> EmptyAssignment]

Some(assignment) == [kind |-> "some", assignment |-> assignment]

(***************************************************************************)
(* Tic-tac-toe                                                             *)
(***************************************************************************)
X == "X"

O == "O"

EMPTY == "EMPTY"

initial_state == [row \in 0..2 |-> [col \in 0..2 |-> EMPTY]]

Count(b, p) == Cardinality({c \in (0..2) \X (0..2) : b[c[1]][c[2]] = p})

player(b) == IF Count(b, X) > Count(b, O) THEN O ELSE X

actions(b) == {c \in (0..2) \X (0..2) : b[c[1]][c[2]] = EMPTY}

checkRow(b, p) ==
    \E row \in 0..2 : b[row][0] = p /\ b[row][1] = p /\ b[row][2] = p

checkCol(b, p) ==
    \E col \in 0..2 : b[col][0] = p /\ b[1][col] = p /\ b[2][col] = p

checkFirstDiag(b, p) ==
    Cardinality({c \in (0..2) \X (0..2) :
                    c[1] = c[2] /\ b[c[1]][c[2]] = p}) = 3

checkSecondDiag(b, p) ==
    Cardinality({c \in (0..2) \X (0..2) :
                    (3 - c[1] - 1) = c[2] /\ b[c[1]][c[2]] = p}) = 3

winner(b) ==
    IF checkRow(b, X) \/ checkCol(b, X) \/ checkFirstDiag(b, X)
           \/ checkSecondDiag(b, X)
    THEN X
    ELSE IF checkRow(b, O) \/ checkCol(b, O) \/ checkFirstDiag(b, O)
                \/ checkSecondDiag(b, O)
    THEN O
    ELSE "None"

(***************************************************************************)
(* The crossword solver as a state machine.                                *)
(***************************************************************************)
CrosswordInit ==
    /\ grid \in Grids
    /\ words \in WordLists
    /\ domains = InitialDomains(grid, words)
    /\ nodeCalls = 0
    /\ pc = "node"
    /\ arcs = <<>>
    /\ ac3ret = "unset"
    /\ btInvoked = FALSE
    /\ stack = <<>>
    /\ result = Unset

Init ==
    /\ CrosswordInit
    /\ board = initial_state

\* enforce_node_consistency(), by solve() and again by a caller.
EnforceNodeConsistency ==
    /\ pc = "node"
    /\ nodeCalls < MaxNodeCalls
    /\ domains' = NodeConsistent(grid, domains)
    /\ nodeCalls' = nodeCalls + 1
    /\ UNCHANGED <<grid, words, pc, arcs, ac3ret, btInvoked, stack, result,
                   board>>

\* ac3(): the worklist is set up.
Ac3Start ==
    /\ pc = "node"
    /\ nodeCalls >= 1
    /\ arcs' \in InitialArcs(grid)
    /\ pc' = "ac3"
    /\ UNCHANGED <<grid, words, domains, nodeCalls, ac3ret, btInvoked, stack,
                   result, board>>

\* ac3(): one turn of "while arcs".
Ac3Step ==
    /\ pc = "ac3"
    /\ arcs # <<>>
    /\ LET x == Head(arcs)[1]
           y == Head(arcs)[2]
           r == Revise(grid, domains, x, y)
       IN /\ domains' = r.domains
          /\ IF r.revised
             THEN IF DomainEmpty(r.domains, x)
                  THEN /\ ac3ret' = "False"
                       /\ pc' = "ac3done"
                       /\ arcs' = Tail(arcs)
                  ELSE /\ \E ext \in NewArcs(grid, x, y) :
                              arcs' = Tail(arcs) \o ext
                       /\ UNCHANGED <<ac3ret, pc>>
             ELSE /\ arcs' = Tail(arcs)
                  /\ UNCHANGED <<ac3ret, pc>>
    /\ UNCHANGED <<grid, words, nodeCalls, btInvoked, stack, result, board>>

\* ac3(): the worklist is empty, "return True".
Ac3Return ==
    /\ pc = "ac3"
    /\ arcs = <<>>
    /\ ac3ret' = "True"
    /\ pc' = "ac3done"
    /\ UNCHANGED <<grid, words, domains, nodeCalls, arcs, btInvoked, stack,
                   result, board>>

\* backtrack(assignment) up to its loop: the stack and the result after the
\* call is entered with the calls of callers being those of stk.
Enter(stk, assignment, v) ==
    Append(stk, [assignment |-> assignment, var |-> v, rem |-> domains[v]])

\* solve(): "return self.backtrack(dict())", whatever ac3 returned.
SolveBacktrack ==
    /\ pc = "ac3done"
    /\ btInvoked' = TRUE
    /\ IF AssignmentComplete(grid, EmptyAssignment)
       THEN /\ result' = Some(EmptyAssignment)
            /\ pc' = "done"
            /\ stack' = <<>>
       ELSE /\ \E v \in SelectUnassigned(grid, domains, EmptyAssignment) :
                   stack' = Enter(<<>>, EmptyAssignment, v)
            /\ pc' = "search"
            /\ UNCHANGED result
    /\ UNCHANGED <<grid, words, domains, nodeCalls, arcs, ac3ret, board>>

\* backtrack(): one turn of "for value in ...": the value is tried, and
\* when it is consistent the recursive call is entered.
BacktrackTry ==
    /\ pc = "search"
    /\ LET top == stack[Len(stack)]
           below == SubSeq(stack, 1, Len(stack) - 1)
       IN /\ top.rem # {}
          /\ \E value \in NextValues(grid, domains, top.assignment, top.var,
                                     top.rem) :
               LET new_assignment == Extend(top.assignment, top.var, value)
                   here == Append(below, [top EXCEPT !.rem = @ \ {value}])
               IN IF Consistent(grid, new_assignment)
                  THEN IF AssignmentComplete(grid, new_assignment)
                       THEN /\ result' = Some(new_assignment)
                            /\ pc' = "done"
                            /\ stack' = <<>>
                       ELSE /\ \E v \in SelectUnassigned(grid, domains,
                                                         new_assignment) :
                                   stack' = Enter(here, new_assignment, v)
                            /\ UNCHANGED <<result, pc>>
                  ELSE /\ stack' = here
                       /\ UNCHANGED <<result, pc>>
    /\ UNCHANGED <<grid, words, domains, nodeCalls, arcs, ac3ret, btInvoked,
                   board>>

\* backtrack(): the loop is over, "return None"; the caller's loop goes on,
\* and solve() returns None when there is no caller.
BacktrackFail ==
    /\ pc = "search"
    /\ stack[Len(stack)].rem = {}
    /\ stack' = SubSeq(stack, 1, Len(stack) - 1)
    /\ IF Len(stack) = 1
       THEN /\ result' = None
            /\ pc' = "done"
       ELSE UNCHANGED <<result, pc>>
    /\ UNCHANGED <<grid, words, domains, nodeCalls, arcs, ac3ret, btInvoked,
                   board>>

Next ==
    \/ EnforceNodeConsistency
    \/ Ac3Start
    \/ Ac3Step
    \/ Ac3Return
    \/ SolveBacktrack
    \/ BacktrackTry
    \/ BacktrackFail

Spec == Init /\ [][Next]_vars

\* ac3() on its own, after node consistency; the loop runs to its end.
NextAc3 ==
    \/ EnforceNodeConsistency
    \/ Ac3Start
    \/ Ac3Step
    \/ Ac3Return

FairAc3 ==
    /\ Init
    /\ [][NextAc3]_vars
    /\ WF_vars(Ac3Step)
    /\ WF_vars(Ac3Return)

(***************************************************************************)
(* Tic-tac-toe as a state machine: the boards result() makes.              *)
(***************************************************************************)
InitTicTacToe ==
    /\ board = initial_state
    /\ grid = GridSingle
    /\ words = {}
    /\ domains = InitialDomains(GridSingle, {})
    /\ nodeCalls = 0
    /\ pc = "idle"
    /\ arcs = <<>>
    /\ ac3ret = "unset"
    /\ btInvoked = FALSE
    /\ stack = <<>>
    /\ result = Unset

\* result(board, action)
Result(action) ==
    /\ action \in actions(board)
    /\ board' = [board EXCEPT ![action[1]][action[2]] = player(board)]
    /\ UNCHANGED cwvars

NextTicTacToe == \E action \in (0..2) \X (0..2) : Result(action)

SpecTicTacToe == InitTicTacToe /\ [][NextTicTacToe]_vars

(***************************************************************************)
(* The properties checked.                                                 *)
(***************************************************************************)

\* What the puzzle asks of a solution: a word of the list for every slot,
\* no word twice, every word as long as its slot, and equal letters where
\* two slots cross.
IsSolution(g, W, a) ==
    /\ DOMAIN a = g.variables
    /\ \A v \in g.variables : a[v] \in W
    /\ \A v, u \in g.variables : v # u => a[v] # a[u]
    /\ \A v \in g.variables : Len(a[v]) = g.length[v]
    /\ \A v, u \in g.variables :
           g.overlaps[<<v, u>>] # NoOverlap =>
               a[v][g.overlaps[<<v, u>>][1] + 1]
                   = a[u][g.overlaps[<<v, u>>][2] + 1]

Solutions(g, W) == {a \in [g.variables -> W] : IsSolution(g, W, a)}

\* The domains node consistency leaves: the words as long as the slot.
WordsOfLength(g, W) ==
    [v \in g.variables |-> {w \in W : Len(w) = g.length[v]}]

\* C1: whenever solve() returns an assignment, it gives every slot a word,
\* no word twice, every word as long as its slot, and overlapping slots
\* agree on the letter they share.
SolveResultIsSolution ==
    result.kind = "some" => IsSolution(grid, words, result.assignment)

SolveReturnedChainSolution ==
    /\ pc = "done"
    /\ result.kind = "some"
    /\ grid = GridChain

\* C2: solve() returns none only when no solution exists, and no word that
\* occurs in a solution is ever removed from its slot's domain by
\* enforce_node_consistency or ac3.
SolveFindsSolution ==
    /\ (pc = "done" /\ Solutions(grid, words) # {}) => result.kind = "some"
    /\ \A a \in Solutions(grid, words) :
           \A v \in grid.variables : a[v] \in domains[v]

SolvedAfterPruning ==
    /\ pc = "done"
    /\ Solutions(grid, words) # {}
    /\ \E v \in grid.variables :
           domains[v] # WordsOfLength(grid, words)[v]

\* C3: when ac3() has returned true, every word of every domain has a
\* matching word in the domain of every neighbouring slot.
Ac3TrueIsArcConsistent ==
    ac3ret = "True" =>
        \A x \in grid.variables :
            \A y \in Neighbors(grid, x) :
                \A w \in domains[x] :
                    \E v \in domains[y] :
                        w[grid.overlaps[<<x, y>>][1] + 1]
                            = v[grid.overlaps[<<x, y>>][2] + 1]

\* C4, as claimed: when ac3() has returned false, backtrack is never
\* invoked.
Ac3FalseSkipsBacktrack == ac3ret = "False" => ~btInvoked

\* C4, amended: when ac3() has returned false, solve() returns none, after
\* a call of backtrack that fails.
Ac3FalseSolveReturnsNone ==
    (pc = "done" /\ ac3ret = "False") => (result = None /\ btInvoked)

SolveDoneAfterAc3False ==
    /\ pc = "done"
    /\ ac3ret = "False"
    /\ \E v \in grid.variables : WordsOfLength(grid, words)[v] # {}

\* C5: when ac3() has returned true, no domain is empty.
Ac3TrueNoEmptyDomain ==
    ac3ret = "True" => \A v \in grid.variables : domains[v] # {}

\* C6: from the node-consistent domains, every order of the initial arcs
\* leads ac3() to the result of this run and, when it is true, to the
\* domains of this run.
Ac3Confluent ==
    pc = "ac3done" =>
        \A order \in InitialArcs(grid) :
            \A out \in Ac3Outcomes(grid, order, WordsOfLength(grid, words)) :
                /\ out.ret = ac3ret
                /\ ac3ret = "True" => out.domains = domains

\* C7: after enforce_node_consistency() every domain is exactly the words
\* of the list as long as the slot, and a further call changes no domain.
NodeConsistencyExactIdempotent ==
    /\ [](pc = "node" /\ nodeCalls >= 1
             => domains = WordsOfLength(grid, words))
    /\ [][(nodeCalls >= 1 /\ nodeCalls' = nodeCalls + 1)
             => domains' = domains]_vars

NodeConsistencyCalledTwice ==
    /\ nodeCalls >= 2
    /\ \E v \in grid.variables : domains[v] # {} /\ domains[v] # words

\* The lines of the board: rows, columns and the two diagonals.
Lines ==
    {{<<r, c>> : c \in 0..2} : r \in 0..2}
        \cup {{<<r, c>> : r \in 0..2} : c \in 0..2}
        \cup {{<<i, i>> : i \in 0..2}, {<<i, 2 - i>> : i \in 0..2}}

Holds(b, p) == \E line \in Lines : \A c \in line : b[c[1]][c[2]] = p

\* C8: winner(board) is X when X holds a row, a column or a diagonal,
\* otherwise O when O holds one, otherwise None.
WinnerIsLineHolder ==
    winner(board) = IF Holds(board, X) THEN X
                    ELSE IF Holds(board, O) THEN O
                    ELSE "None"

\* C9: when ac3 pops (x, y) and the revision removes a word and leaves
\* Domain(x) nonempty, the arcs appended are exactly (z, x) for the
\* neighbours z of x other than y.
Ac3RequeuesArcsIntoX ==
    [][(pc = "ac3" /\ pc' = "ac3" /\ domains' # domains) =>
          \E ext \in Perms({<<z, Head(arcs)[1]>> :
                              z \in Neighbors(grid, Head(arcs)[1])
                                       \ {Head(arcs)[2]}}) :
              arcs' = Tail(arcs) \o ext]_vars

\* C10: the loop of ac3() ends: once begun, ac3() returns.
Ac3Terminates == (pc = "ac3") ~> (pc = "ac3done")

Ac3ReturnedAfterRequeue ==
    /\ pc = "ac3done"
    /\ ac3ret = "True"
    /\ grid = GridChain
    /\ domains["B"] # {}
    /\ domains["B"] # WordsOfLength(grid, words)["B"]

====
